---- MODULE Spec2Model ----
(***************************************************************************)
(* Model of the agent conversation engine of gpt_agent: the two            *)
(* conversation protocols (app/protocol.py), the tool registry and the     *)
(* recursive turn loop LLM.chat (client.py).                                *)
(*                                                                         *)
(* Wire text is a sequence of tokens: delimiting tags, runs of literal     *)
(* characters, whitespace and chunks of JSON text.  Python values (and     *)
(* JSON values) are tagged records.                                        *)
(***************************************************************************)
EXTENDS Integers, Sequences, FiniteSets, TLC

----------------------------------------------------------------------------
(* Bounds of the exploration. *)
\* external chat calls made by the caller
MaxCalls == 2
\* backend requests sent over the whole conversation
MaxRequests == 3

----------------------------------------------------------------------------
(* Text: tokens. *)

\* an opening tag <f>, written in lower case (c = "l") or upper case (c = "u")
Open(f) == [k |-> "open", f |-> f, c |-> "l"]
OpenU(f) == [k |-> "open", f |-> f, c |-> "u"]
Close(f) == [k |-> "close", f |-> f, c |-> "l"]
CloseU(f) == [k |-> "close", f |-> f, c |-> "u"]
\* a run of literal non-blank characters
W(s) == [k |-> "word", s |-> s]
\* a run of blanks or newlines
WS == [k |-> "ws"]
\* the JSON text of the value v, compact (p = FALSE) or indented (p = TRUE)
J(v, p) == [k |-> "json", j |-> v, p |-> p]

\* Python / JSON values
PyNone == [t |-> "null"]
PyStr(s) == [t |-> "str", s |-> s]
PyList(l) == [t |-> "list", l |-> l]
PyDict(d) == [t |-> "dict", d |-> d]

IsNone(v) == v.t = "null"
IsStr(v) == v.t = "str"
IsList(v) == v.t = "list"
IsDict(v) == v.t = "dict"

\* Python truthiness of None, a str, a list or a dict
Truthy(v) ==
    CASE IsNone(v) -> FALSE
      [] IsStr(v) -> v.s # <<>>
      [] IsList(v) -> v.l # <<>>
      [] IsDict(v) -> DOMAIN v.d # {}

\* str.lower() on one run of characters
LowerWord(s) ==
    CASE s = "Get_Current_Date" -> "get_current_date"
      [] s = "GHOST" -> "ghost"
      [] OTHER -> s

LowerTok(tk) == IF tk.k = "word" THEN W(LowerWord(tk.s)) ELSE tk

\* str.lower()
Lower(text) == [i \in 1..Len(text) |-> LowerTok(text[i])]

RECURSIVE LStrip(_)
LStrip(text) ==
    IF text # <<>> /\ Head(text) = WS THEN LStrip(Tail(text)) ELSE text

RECURSIVE RStrip(_)
RStrip(text) ==
    IF text # <<>> /\ text[Len(text)] = WS
    THEN RStrip(SubSeq(text, 1, Len(text) - 1))
    ELSE text

\* str.strip()
Strip(text) == RStrip(LStrip(text))

\* "{}".format(v) for None or a str
Format(v) == IF IsNone(v) THEN <<W("None")>> ELSE v.s

\* json.dumps(v, indent=2 if pretty else None)
json_dumps(v, pretty) == <<J(v, pretty)>>

\* json.loads(text): the value, or JSONDecodeError
json_loads(text) ==
    LET s == Strip(text) IN
    IF Len(s) = 1 /\ s[1].k = "json"
    THEN [ok |-> TRUE, val |-> s[1].j]
    ELSE [ok |-> FALSE, err |-> "JSONDecodeError"]

----------------------------------------------------------------------------
(* app/protocol.py *)

StructuredMessage(thoughts, tool, tool_args, response) ==
    [thoughts |-> thoughts, tool |-> tool, tool_args |-> tool_args,
     response |-> response]

\* pydantic validation of the four fields on construction
FieldsValidate(thoughts, tool, tool_args, response) ==
    /\ IsNone(thoughts) \/ IsStr(thoughts)
    /\ IsNone(tool) \/ IsStr(tool)
    /\ IsList(tool_args)
    /\ IsNone(response) \/ IsStr(response)

\* StructuredMessage(...) as called by the parsers: the message or ValidationError
Construct(thoughts, tool, tool_args, response) ==
    IF FieldsValidate(thoughts, tool, tool_args, response)
    THEN [ok |-> TRUE, msg |-> StructuredMessage(thoughts, tool, tool_args, response)]
    ELSE [ok |-> FALSE, err |-> "ValidationError"]

\* a validity check that forgets the tool/response half
is_valid_thoughts_only(m) == Truthy(m.thoughts)

\* a validity check that forgets the thoughts
is_valid_without_thoughts(m) == Truthy(m.tool) \/ Truthy(m.response)

\* StructuredMessage.is_valid, under Python truthiness
is_valid(m) ==
    \/ Truthy(m.thoughts) /\ Truthy(m.tool)
    \/ Truthy(m.thoughts) /\ Truthy(m.response)

IsOpen(tk, f) == tk.k = "open" /\ tk.f = f
IsClose(tk, f) == tk.k = "close" /\ tk.f = f

\* re.compile(r"<f>(.*?)</f>", IGNORECASE | MULTILINE | DOTALL).search(text):
\* group(1) of the leftmost, shortest match, or no match
TagSearch(f, text) ==
    LET opens == {i \in 1..Len(text) :
                    /\ IsOpen(text[i], f)
                    /\ \E j \in (i+1)..Len(text) : IsClose(text[j], f)}
    IN IF opens = {}
       THEN [found |-> FALSE]
       ELSE LET i == CHOOSE a \in opens : \A b \in opens : a <= b
                j == CHOOSE a \in (i+1)..Len(text) :
                        /\ IsClose(text[a], f)
                        /\ \A b \in (i+1)..(a-1) : ~IsClose(text[b], f)
            IN [found |-> TRUE, group |-> SubSeq(text, i + 1, j - 1)]

\* the field of a tag: its stripped content, or None without the tag
TagField(f, text) ==
    LET mt == TagSearch(f, text) IN
    IF mt.found THEN PyStr(Strip(mt.group)) ELSE PyNone

XMLToolArgs(text) ==
    LET mt == TagSearch("tool_args", text) IN
    IF mt.found
    THEN LET r == json_loads(Strip(mt.group)) IN
         IF r.ok THEN r.val ELSE PyList(<<>>)
    ELSE PyList(<<>>)

\* the tag parser without the thoughts fallback
XMLparse_nofallback(text) ==
    Construct(TagField("thoughts", text), TagField("tool", text),
              XMLToolArgs(text), TagField("response", text))

\* XMLConversationProtocol.parse
XMLparse(text) ==
    LET thoughts == TagField("thoughts", text)
        tool == TagField("tool", text)
        tool_args == XMLToolArgs(text)
        resp == TagField("response", text)
        response == IF ~Truthy(resp) THEN thoughts ELSE resp
    IN Construct(thoughts, tool, tool_args, response)

\* XMLConversationProtocol.serialize: the text, or AttributeError on tool=None
XMLserialize(m, new_line) ==
    IF IsNone(m.tool)
    THEN [ok |-> FALSE, err |-> "AttributeError"]
    ELSE LET nl == IF new_line THEN <<WS>> ELSE <<>> IN
         [ok |-> TRUE,
          text |-> <<Open("thoughts")>> \o Format(m.thoughts) \o <<Close("thoughts")>>
                   \o nl
                   \o <<Open("tool")>> \o Lower(m.tool.s) \o <<Close("tool")>>
                   \o nl
                   \o <<Open("tool_args")>> \o json_dumps(m.tool_args, FALSE)
                   \o <<Close("tool_args")>>
                   \o nl
                   \o <<Open("response")>> \o Format(m.response) \o <<Close("response")>>]

\* dict.get(key): the value, or None
DictGet(d, key) == IF key \in DOMAIN d THEN d[key] ELSE PyNone

\* JSONConversationProtocol.parse
JSONparse(text) ==
    LET r == json_loads(text) IN
    IF ~r.ok THEN [ok |-> FALSE, err |-> r.err]
    ELSE IF ~IsDict(r.val) THEN [ok |-> FALSE, err |-> "AttributeError"]
    ELSE Construct(DictGet(r.val.d, "thoughts"), DictGet(r.val.d, "tool"),
                   DictGet(r.val.d, "tool_args"), DictGet(r.val.d, "response"))

\* JSONConversationProtocol.serialize
JSONserialize(m, new_line) ==
    [ok |-> TRUE,
     text |-> json_dumps(PyDict([thoughts |-> m.thoughts, tool |-> m.tool,
                                 tool_args |-> m.tool_args,
                                 response |-> m.response]), new_line)]

Protocols == {"xml", "json"}

\* conversation_protocol.parse
parse(p, text) == IF p = "xml" THEN XMLparse(text) ELSE JSONparse(text)

\* conversation_protocol.serialize
serialize(p, m, new_line) ==
    IF p = "xml" THEN XMLserialize(m, new_line) ELSE JSONserialize(m, new_line)

----------------------------------------------------------------------------
(* app/tools/__init__.py and the registry of client.py *)

\* the tools handed to LLM.__init__, in registration order
ToolsAtStartup == <<"get_current_date", "read_file_contents">>

\* LLM.get_tool_by_name: the first registered tool of that name, or None
get_tool_by_name(registry, name) ==
    LET hits == {i \in 1..Len(registry) : <<W(registry[i])>> = name} IN
    IF hits = {} THEN [found |-> FALSE]
    ELSE [found |-> TRUE,
          name |-> registry[CHOOSE a \in hits : \A b \in hits : a <= b]]

\* what tool.function(*args) can return, as str(result)
ToolResults(name, args) ==
    CASE name = "get_current_date" ->
            IF Len(args) = 0 THEN {"2026-11-06"} ELSE {}
      [] name = "read_file_contents" ->
            IF Len(args) = 1 THEN {"file text"} ELSE {}
      [] OTHER -> {}

\* what tool.function(*args) can raise, as str(e)
ToolErrors(name, args) ==
    CASE name = "get_current_date" ->
            IF Len(args) = 0 THEN {} ELSE {"takes 0 positional arguments"}
      [] name = "read_file_contents" ->
            IF Len(args) = 1 THEN {"No such file or directory"}
            ELSE {"missing 1 required positional argument"}
      [] OTHER -> {}

----------------------------------------------------------------------------
(* What the backend and the caller can say. *)

Txt(s) == PyStr(<<W(s)>>)

NoArgs == PyList(<<>>)

JsonReply(d) == <<J(PyDict(d), FALSE)>>

XmlField(f, body) == <<Open(f)>> \o body \o <<Close(f)>>

\* the reply texts the backend chooses from
ReplyTexts == <<
    \* 1: tags, final answer
    XmlField("thoughts", <<W("greet")>>) \o XmlField("tool", <<>>)
        \o XmlField("tool_args", <<J(NoArgs, FALSE)>>)
        \o XmlField("response", <<W("hello")>>),
    \* 2: tags, thoughts only
    XmlField("thoughts", <<WS, W("need date"), WS>>),
    \* 3: tags in upper case, a registered tool without arguments
    <<OpenU("thoughts"), W("look up"), CloseU("thoughts"), WS>>
        \o XmlField("tool", <<W("get_current_date")>>)
        \o XmlField("tool_args", <<J(NoArgs, FALSE)>>),
    \* 4: tags, a registered tool with one argument
    XmlField("thoughts", <<W("read it")>>)
        \o XmlField("tool", <<W("read_file_contents")>>)
        \o XmlField("tool_args", <<J(PyList(<<Txt("a.txt")>>), FALSE)>>),
    \* 5: tags, an unregistered tool
    XmlField("thoughts", <<W("try")>>) \o XmlField("tool", <<WS, W("ghost")>>),
    \* 6: tags, no thoughts
    XmlField("tool", <<W("get_current_date")>>)
        \o XmlField("response", <<W("hello")>>),
    \* 7: tags, tool_args is a JSON object
    XmlField("thoughts", <<W("read it")>>)
        \o XmlField("tool", <<W("read_file_contents")>>)
        \o XmlField("tool_args",
                    <<J(PyDict([target_path |-> Txt("a.txt")]), FALSE)>>),
    \* 8: JSON, final answer
    JsonReply([thoughts |-> Txt("greet"), tool |-> PyStr(<<>>), tool_args |-> NoArgs,
               response |-> Txt("hello")]),
    \* 9: JSON, thoughts only
    JsonReply([thoughts |-> Txt("need date"), tool_args |-> NoArgs]),
    \* 10: JSON, a registered tool with one argument
    JsonReply([thoughts |-> Txt("read it"), tool |-> Txt("read_file_contents"),
               tool_args |-> PyList(<<Txt("a.txt")>>), response |-> PyNone]),
    \* 11: JSON, an unregistered tool
    JsonReply([thoughts |-> Txt("try"), tool |-> Txt("ghost"),
               tool_args |-> NoArgs, response |-> PyNone]),
    \* 12: JSON, no thoughts
    JsonReply([tool |-> Txt("get_current_date"), tool_args |-> NoArgs,
               response |-> Txt("hello")]),
    \* 13: JSON, thoughts only and no tool_args key
    JsonReply([thoughts |-> Txt("need date")])
>>

\* the prompts the caller types
Prompts == <<  <<W("what day is it?")>>  >>

\* the roles the caller passes to chat
CallerRoles == {"user", "system"}

----------------------------------------------------------------------------
(* client.py: the engine *)

VARIABLES
    protocol,       \* self.conversation_protocol
    tools,          \* self.tools, the names in registration order
    history,        \* self.history
    pc,             \* where chat stands: "idle", "backend" (request in flight), "tool"
    sent,           \* payload["messages"] of the latest request
    msg,            \* the parsed reply whose tool is being invoked
    outcome,        \* how the latest finished chat call ended
    depth,          \* chat frames on the stack
    nCalls,         \* chat calls made by the caller
    nRequests,      \* requests posted to the backend
    nInvocations,   \* tool functions called
    tool_result,    \* how the latest tool call ended: returned val, or raised val
    rounds,         \* log of completed exchanges: what was sent last, what came back
    nFailed         \* backend calls that raised

\* the state of one LLM, but for its registry
chatVars == <<protocol, history, pc, sent, msg, outcome, depth, nCalls,
              nRequests, nInvocations, tool_result, rounds, nFailed>>

engineVars == <<tools, chatVars>>

VARIABLES
    codec,          \* the protocol call under test: its inputs and what it gave
    pageMax,        \* the Everything server: the maximum offset each page names
    af,             \* the locals of search_files_async
    sf              \* the locals of search_files

otherVars == <<codec, pageMax, af, sf>>

vars == <<engineVars, otherVars>>

\* no protocol call is under test
CodecIdle == codec = [op |-> "none"]

\* no search is running
FetchIdle ==
    /\ pageMax = <<>>
    /\ af = [pc |-> "off"]
    /\ sf = [pc |-> "off"]

Entry(role, content) == [role |-> role, content |-> content]

NoMsg == StructuredMessage(PyNone, PyNone, PyList(<<>>), PyNone)

NoResult == [ok |-> TRUE, val |-> ""]

NoOutcome == [kind |-> "none", error |-> "", msg |-> NoMsg]
Returned(m) == [kind |-> "returned", error |-> "", msg |-> m]
Raised(e) == [kind |-> "raised", error |-> e, msg |-> NoMsg]

\* LLM.generate_system_prompt: fixed text around the protocol's schema example,
\* the tool schemas and four serialized examples (none with tool=None)
generate_system_prompt(p, registry) ==
    <<W("YOU MUST RESPOND ONLY IN THIS STRICT FORMAT:"), W(p), W("TOOLS AVAILABLE:")>>
    \o [i \in 1..Len(registry) |-> W(registry[i])]
    \o <<W("EXAMPLES:")>>
    \o serialize(p, StructuredMessage(Txt("greeted"), PyStr(<<>>), NoArgs,
                                      Txt("Hello, how are you doing?")), TRUE).text

SystemMessage(p, registry) == Entry("system", generate_system_prompt(p, registry))

\* a payload that carries only the newest entry
send_request_last_only(p, registry, h) ==
    <<SystemMessage(p, registry)>> \o <<h[Len(h)]>>

\* payload["messages"] of LLM.send_request
send_request(p, registry, h) == <<SystemMessage(p, registry)>> \o h

\* an append that keeps a sliding window of the last four entries
HistoryAppend_window(h, role, content) ==
    IF Len(h) >= 4 THEN Append(Tail(h), Entry(role, content))
    ELSE Append(h, Entry(role, content))

\* an insert at the front instead of an append
HistoryAppend_front(h, role, content) == <<Entry(role, content)>> \o h

\* self.history.append({"role": role, "content": content})
HistoryAppend(h, role, content) == Append(h, Entry(role, content))

\* the thoughts of the corrective turn after a parse failure
CannotProcess(response_content, e) ==
    <<W("\"")>> \o response_content
    \o <<W("\" cannot be processed. Error:"), W(e),
         W(", revisioning further with my thoughts...")>>

\* the thoughts of the turn relaying a tool failure
ToolError(tool, e) ==
    <<W("\"")>> \o tool \o <<W("\" tool returned error: \""), W(e),
         W("\", proceeding further with my thoughts...")>>

\* the thoughts of the turn relaying a tool result
ToolResult(tool, res) ==
    <<W("\"")>> \o tool \o <<W("\" tool returned result: \""), W(res),
         W("\", proceeding further with my thoughts...")>>

\* chat(prompt, role) up to the backend call: append the prompt, post the request
Enter(h, prompt, role) ==
    /\ nRequests < MaxRequests
    /\ history' = HistoryAppend(h, role, prompt)
    /\ sent' = send_request(protocol, tools, history')
    /\ nRequests' = nRequests + 1
    /\ depth' = depth + 1
    /\ pc' = "backend"
    /\ msg' = NoMsg
    /\ UNCHANGED outcome

\* an exception that takes the last entry off the transcript on its way out
Raise_rollback(h, e) ==
    /\ history' = SubSeq(h, 1, Len(h) - 1)
    /\ outcome' = Raised(e)
    /\ pc' = "idle"
    /\ depth' = 0
    /\ msg' = NoMsg
    /\ UNCHANGED <<sent, nRequests>>

\* an exception leaves chat and every frame below it
Raise(h, e) ==
    /\ history' = h
    /\ outcome' = Raised(e)
    /\ pc' = "idle"
    /\ depth' = 0
    /\ msg' = NoMsg
    /\ UNCHANGED <<sent, nRequests>>

\* a return that takes the reply off the transcript
Return_trimmed(h, m) ==
    /\ history' = SubSeq(h, 1, Len(h) - 1)
    /\ outcome' = Returned(m)
    /\ pc' = "idle"
    /\ depth' = 0
    /\ msg' = NoMsg
    /\ UNCHANGED <<sent, nRequests>>

\* return response, through every frame below
Return(h, m) ==
    /\ history' = h
    /\ outcome' = Returned(m)
    /\ pc' = "idle"
    /\ depth' = 0
    /\ msg' = NoMsg
    /\ UNCHANGED <<sent, nRequests>>

\* return self.chat(self.conversation_protocol.serialize(StructuredMessage(
\*     thoughts=..., tool=None, tool_args=[], response=None)))
Continue(h, thoughts) ==
    LET s == serialize(protocol,
                       StructuredMessage(PyStr(thoughts), PyNone, PyList(<<>>), PyNone),
                       FALSE)
    IN IF s.ok THEN Enter(h, s.text, "user") ELSE Raise(h, s.err)

\* the caller calls llm.chat(prompt, role)
ChatCall(prompt, role) ==
    /\ pc = "idle"
    /\ nCalls < MaxCalls
    /\ nCalls' = nCalls + 1
    /\ Enter(history, prompt, role)
    /\ UNCHANGED <<protocol, tools, nInvocations, tool_result, rounds, nFailed>>
    /\ UNCHANGED otherVars

\* LLM.clean_response: the text as it is (its extraction step is commented out)
clean_response(text) == text

\* the content of the first choice
LastChoice_first(choices) == choices[1]

\* raw_response["choices"][-1]["message"]["content"]
LastChoice(choices) == choices[Len(choices)]

\* the backend answers; chat runs on to its next suspension or to its end
BackendReplies(choices) ==
    /\ pc = "backend"
    /\ rounds' = Append(rounds, [inbound |-> sent[Len(sent)],
                                 reply |-> LastChoice(choices),
                                 choices |-> choices])
    /\ LET response_content == LastChoice(choices)
           h == HistoryAppend(history, "assistant", response_content)
           r == parse(protocol, clean_response(response_content))
       IN IF ~r.ok THEN Continue(h, CannotProcess(response_content, r.err))
          ELSE IF ~is_valid(r.msg) THEN Raise(h, "ValueError")
          ELSE IF Truthy(r.msg.tool)
                  /\ get_tool_by_name(tools, r.msg.tool.s).found
               THEN /\ history' = h
                    /\ msg' = r.msg
                    /\ pc' = "tool"
                    /\ UNCHANGED <<sent, outcome, depth, nRequests>>
          ELSE Return(h, r.msg)
    /\ UNCHANGED <<protocol, tools, nCalls, nInvocations, tool_result, nFailed>>
    /\ UNCHANGED otherVars

\* a backend failure that posts the request again
BackendFails_retry ==
    /\ pc = "backend"
    /\ nRequests < MaxRequests
    /\ nRequests' = nRequests + 1
    /\ UNCHANGED <<protocol, tools, history, pc, sent, msg, outcome, depth, nCalls,
                   nInvocations, tool_result, rounds, nFailed>>
    /\ UNCHANGED otherVars

\* requests.post or response.json() or the indexing of its result raises
BackendFails ==
    /\ pc = "backend"
    /\ Raise(history, "BackendError")
    /\ nFailed' = nFailed + 1
    /\ UNCHANGED <<protocol, tools, nCalls, nInvocations, tool_result, rounds>>
    /\ UNCHANGED otherVars

\* tool.function(*response.tool_args) returns
ToolReturns ==
    /\ pc = "tool"
    /\ LET tool == get_tool_by_name(tools, msg.tool.s).name IN
       \E res \in ToolResults(tool, msg.tool_args.l) :
          /\ tool_result' = [ok |-> TRUE, val |-> res]
          /\ Continue(history, ToolResult(msg.tool.s, res))
    /\ nInvocations' = nInvocations + 1
    /\ UNCHANGED <<protocol, tools, nCalls, rounds, nFailed>>
    /\ UNCHANGED otherVars

\* tool.function(*response.tool_args) raises
ToolRaises ==
    /\ pc = "tool"
    /\ LET tool == get_tool_by_name(tools, msg.tool.s).name IN
       \E e \in ToolErrors(tool, msg.tool_args.l) :
          /\ tool_result' = [ok |-> FALSE, val |-> e]
          /\ Continue(history, ToolError(msg.tool.s, e))
    /\ nInvocations' = nInvocations + 1
    /\ UNCHANGED <<protocol, tools, nCalls, rounds, nFailed>>
    /\ UNCHANGED otherVars

\* an LLM right after __init__, but for its registry
ChatInit ==
    /\ protocol \in Protocols
    /\ history = <<>>
    /\ pc = "idle"
    /\ sent = <<>>
    /\ msg = NoMsg
    /\ outcome = NoOutcome
    /\ depth = 0
    /\ nCalls = 0
    /\ nRequests = 0
    /\ nInvocations = 0
    /\ tool_result = NoResult
    /\ rounds = <<>>
    /\ nFailed = 0

Init ==
    /\ tools = ToolsAtStartup
    /\ ChatInit
    /\ CodecIdle
    /\ FetchIdle

Next ==
    \/ \E i \in 1..Len(Prompts), role \in CallerRoles : ChatCall(Prompts[i], role)
    \/ \E i \in 1..Len(ReplyTexts) : BackendReplies(<<ReplyTexts[i]>>)
    \/ BackendFails
    \/ ToolReturns
    \/ ToolRaises

Spec == Init /\ [][Next]_vars

\* the contents a reply of several choices is made of
ChoiceTexts == <<ReplyTexts[3], ReplyTexts[8], ReplyTexts[10]>>

\* the choices of one backend reply: one, or two
ChoiceLists ==
    {<<ChoiceTexts[i]>> : i \in 1..Len(ChoiceTexts)}
        \cup {<<ChoiceTexts[i], ChoiceTexts[j]>> :
                 i \in 1..Len(ChoiceTexts), j \in 1..Len(ChoiceTexts)}

\* the roles chat accepts: role is any str, and the transcript knows three
AnyRoles == {"user", "system", "assistant"}

\* the engine against a backend that answers with several choices and a
\* caller that passes any role
NextChoices ==
    \/ \E i \in 1..Len(Prompts), role \in AnyRoles : ChatCall(Prompts[i], role)
    \/ \E choices \in ChoiceLists : BackendReplies(choices)
    \/ BackendFails
    \/ ToolReturns
    \/ ToolRaises

SpecChoices == Init /\ [][NextChoices]_vars

TypeOK ==
    /\ protocol \in Protocols
    /\ pc \in {"idle", "backend", "tool"}
    /\ nRequests <= MaxRequests
    /\ nCalls <= MaxCalls

----------------------------------------------------------------------------
(* The protocol calls on their own: parse on reply texts, and serialize,
   parse, serialize again on Messages *)

\* how a field shows up in a reply text: no tag or key at all; an empty tag or
\* the empty string; a blank tag or null; a value
Shapes == {"absent", "empty", "void", "value"}

TextFields == {"thoughts", "tool", "response"}

FieldWord(f) ==
    CASE f = "thoughts" -> "greet"
      [] f = "tool" -> "get_current_date"
      [] f = "response" -> "hello"

\* what tool_args holds in a reply text
ArgShapes == {"absent", "list0", "list1", "dict", "str", "null", "garbage"}

ArgValue(sh) ==
    CASE sh = "list0" -> NoArgs
      [] sh = "list1" -> PyList(<<Txt("a.txt")>>)
      [] sh = "dict" -> PyDict([target_path |-> Txt("a.txt")])
      [] sh = "str" -> Txt("a.txt")
      [] sh = "null" -> PyNone

XmlShape(f, sh) ==
    CASE sh = "absent" -> <<>>
      [] sh = "empty" -> XmlField(f, <<>>)
      [] sh = "void" -> XmlField(f, <<WS>>)
      [] sh = "value" -> XmlField(f, <<W(FieldWord(f))>>)

XmlArgs(sh) ==
    CASE sh = "absent" -> <<>>
      [] sh = "garbage" -> XmlField("tool_args", <<W("[not json")>>)
      [] OTHER -> XmlField("tool_args", <<J(ArgValue(sh), FALSE)>>)

\* a reply in tags
XmlText(ch, ash) ==
    XmlShape("thoughts", ch.thoughts) \o XmlShape("tool", ch.tool)
        \o XmlArgs(ash) \o XmlShape("response", ch.response)

JsonValue(f, sh) ==
    CASE sh = "empty" -> PyStr(<<>>)
      [] sh = "void" -> PyNone
      [] sh = "value" -> Txt(FieldWord(f))

\* a reply that is one JSON object
JsonText(ch, ash) ==
    LET ks == {f \in TextFields : ch[f] # "absent"}
              \cup (IF ash # "absent" THEN {"tool_args"} ELSE {})
    IN JsonReply([k \in ks |-> IF k = "tool_args" THEN ArgValue(ash)
                                ELSE JsonValue(k, ch[k])])

\* replies that are neither: nothing, prose, a JSON array, a JSON string
OddTexts == << <<>>, <<W("hello")>>, <<J(NoArgs, FALSE)>>, <<J(Txt("hello"), FALSE)>> >>

\* the Messages handed to serialize
CodecMessages ==
    {StructuredMessage(th, tl, ta, rs) :
        th \in {PyNone, PyStr(<<>>), Txt("greet"), PyStr(<<WS, W("greet")>>)},
        tl \in {PyNone, PyStr(<<>>), Txt("get_current_date"), Txt("Get_Current_Date")},
        ta \in {NoArgs, PyList(<<Txt("a.txt")>>)},
        rs \in {PyNone, PyStr(<<>>), Txt("hello")}}

OnText(text) == codec = [op |-> "text", text |-> text]

CodecInputs ==
    \/ \E ch \in [TextFields -> Shapes], ash \in ArgShapes : OnText(XmlText(ch, ash))
    \/ \E ch \in [TextFields -> Shapes], ash \in ArgShapes \ {"garbage"} :
          OnText(JsonText(ch, ash))
    \/ \E i \in 1..Len(OddTexts) : OnText(OddTexts[i])
    \/ \E m \in CodecMessages, new_line \in BOOLEAN :
          codec = [op |-> "message", m |-> m, new_line |-> new_line]

\* conversation_protocol.parse(text)
CodecParse ==
    /\ codec.op = "text"
    /\ codec' = [op |-> "parsed", text |-> codec.text,
                 res |-> parse(protocol, codec.text)]
    /\ UNCHANGED <<engineVars, pageMax, af, sf>>

\* conversation_protocol.serialize(m, new_line)
CodecSerialize ==
    /\ codec.op = "message"
    /\ codec' = [op |-> "serialized", m |-> codec.m, new_line |-> codec.new_line,
                 ser |-> serialize(protocol, codec.m, codec.new_line)]
    /\ UNCHANGED <<engineVars, pageMax, af, sf>>

\* conversation_protocol.parse of what serialize gave
CodecParseBack ==
    /\ codec.op = "serialized"
    /\ codec.ser.ok
    /\ codec' = [op |-> "back", m |-> codec.m, new_line |-> codec.new_line,
                 ser |-> codec.ser, back |-> parse(protocol, codec.ser.text)]
    /\ UNCHANGED <<engineVars, pageMax, af, sf>>

\* conversation_protocol.serialize of what that parse gave
CodecSerializeAgain ==
    /\ codec.op = "back"
    /\ codec.back.ok
    /\ codec' = [op |-> "again", m |-> codec.m, new_line |-> codec.new_line,
                 ser |-> codec.ser, back |-> codec.back,
                 again |-> serialize(protocol, codec.back.msg, codec.new_line)]
    /\ UNCHANGED <<engineVars, pageMax, af, sf>>

InitCodec ==
    /\ tools = ToolsAtStartup
    /\ ChatInit
    /\ CodecInputs
    /\ FetchIdle

NextCodec ==
    \/ CodecParse
    \/ CodecSerialize
    \/ CodecParseBack
    \/ CodecSerializeAgain

SpecCodec == InitCodec /\ [][NextCodec]_vars

----------------------------------------------------------------------------
(* The registry on its own: register_tool calls in any order, and lookups *)

\* the longest registry explored
MaxTools == 4

\* the functions handed to register_tool, by their __name__
ToolFunctions == <<"get_current_date", "read_file_contents", "search_files">>

\* the names looked up
LookupNames == <<"get_current_date", "read_file_contents", "search_files", "ghost">>

\* LLM.register_tool(func): the descriptor is appended to self.tools
RegisterTool(func) ==
    /\ Len(tools) < MaxTools
    /\ tools' = Append(tools, func)
    /\ UNCHANGED <<chatVars, otherVars>>

\* LLM.get_tool_by_name(name), its answer kept
LookupTool(name) ==
    /\ codec' = [op |-> "lookup", name |-> name,
                 res |-> get_tool_by_name(tools, <<W(name)>>)]
    /\ UNCHANGED <<engineVars, pageMax, af, sf>>

InitRegistry ==
    /\ tools = <<>>
    /\ ChatInit
    /\ CodecIdle
    /\ FetchIdle

NextRegistry ==
    \/ \E i \in 1..Len(ToolFunctions) : RegisterTool(ToolFunctions[i])
    \/ \E i \in 1..Len(LookupNames) : LookupTool(LookupNames[i])

SpecRegistry == InitRegistry /\ [][NextRegistry]_vars

----------------------------------------------------------------------------
(* app/tools/everything.py: the paginated search, concurrent and sequential,
   against one Everything server *)

\* the pages of the server beyond the first
MaxPages == 3

\* the page size the offsets advance by
Stride == 32

Offsets == {Stride * i : i \in 0..MaxPages}

\* the files parse_page finds on the page at an offset
PageFiles(offset) == <<offset + 1, offset + 2>>

\* parse_page(html) for the page at an offset
parse_page(offset) == [page_files |-> PageFiles(offset), max_offset |-> pageMax[offset]]

\* range(offset + 32, max_offset + 1, 32)
OffsetRange(offset, max_offset) ==
    {offset + Stride * i : i \in 1..MaxPages} \cap 0..max_offset

\* the offsets a page makes search_files_async schedule, were the tasks in
\* flight not looked at
NewTasks_seen_only(offset, max_offset, seen_offsets, tasks) ==
    {new_offset \in OffsetRange(offset, max_offset) : new_offset \notin seen_offsets}

\* the offsets a page makes search_files_async schedule, were only the page
\* after it enumerated
NewTasks_next_only(offset, max_offset, seen_offsets, tasks) ==
    {new_offset \in OffsetRange(offset, max_offset) :
        /\ new_offset = offset + Stride
        /\ new_offset \notin seen_offsets /\ new_offset \notin tasks}

\* the offsets a page makes search_files_async schedule
NewTasks(offset, max_offset, seen_offsets, tasks) ==
    {new_offset \in OffsetRange(offset, max_offset) :
        new_offset \notin seen_offsets /\ new_offset \notin tasks}

\* the dict keys as they were inserted
sorted_asis(keys) == keys

\* sorted(files_by_offset)
sorted(keys) == SortSeq(keys, LAMBDA a, b : a < b)

RECURSIVE Flatten(_)
\* [file for offset in keys for file in files_by_offset[offset]]
Flatten(keys) ==
    IF keys = <<>> THEN <<>>
    ELSE PageFiles(Head(keys)) \o Flatten(Tail(keys))

\* the returned list
Aggregate(files_by_offset) == Flatten(sorted(files_by_offset))

NoFetches == [o \in Offsets |-> 0]

\* one more fetch issued for each offset of a set
Count(issued, offsets) ==
    [o \in Offsets |-> IF o \in offsets THEN issued[o] + 1 ELSE issued[o]]

\* search_files_async up to its first suspension: the task for offset 0
AsyncStart ==
    /\ af.pc = "start"
    /\ af' = [af EXCEPT !.pc = "wait", !.tasks = {0},
                        !.issued = Count(af.issued, {0})]
    /\ UNCHANGED <<engineVars, codec, pageMax, sf>>

\* a fetch task that itself records its offset as seen
FetchCompletes_marks_seen(offset) ==
    /\ af.pc = "wait"
    /\ offset \in af.tasks \ af.done
    /\ af' = [af EXCEPT !.done = af.done \cup {offset},
                        !.seen_offsets = af.seen_offsets \cup {offset}]
    /\ UNCHANGED <<engineVars, codec, pageMax, sf>>

\* fetch_page_async(session, query, offset) gets its page while the search
\* is suspended in asyncio.wait
FetchCompletes(offset) ==
    /\ af.pc = "wait"
    /\ offset \in af.tasks \ af.done
    /\ af' = [af EXCEPT !.done = af.done \cup {offset}]
    /\ UNCHANGED <<engineVars, codec, pageMax, sf>>

\* asyncio.wait returns the tasks that are done by now
AsyncWake ==
    /\ af.pc = "wait"
    /\ af.done # {}
    /\ af' = [af EXCEPT !.pc = "batch", !.batch = af.done]
    /\ UNCHANGED <<engineVars, codec, pageMax, sf>>

\* a pass of "for future in done" that leaves the task in tasks
AsyncProcess_keeps_task(offset) ==
    /\ af.pc = "batch"
    /\ offset \in af.batch
    /\ af' = [af EXCEPT !.batch = af.batch \ {offset},
                        !.seen_offsets = af.seen_offsets \cup {offset},
                        !.pc = IF af.batch = {offset} THEN "wait" ELSE "batch"]
    /\ UNCHANGED <<engineVars, codec, pageMax, sf>>

\* one pass of "for future in done", and what follows the last pass: the
\* next asyncio.wait, or the return
AsyncProcess(offset) ==
    /\ af.pc = "batch"
    /\ offset \in af.batch
    /\ LET tasks == af.tasks \ {offset}
           batch == af.batch \ {offset}
           skip == offset \in af.seen_offsets
           seen_offsets == af.seen_offsets \cup {offset}
           page == parse_page(offset)
           files_by_offset == IF skip THEN af.files_by_offset
                              ELSE Append(af.files_by_offset, offset)
           new == IF skip THEN {}
                  ELSE NewTasks(offset, page.max_offset, seen_offsets, tasks)
           over == batch = {} /\ tasks \cup new = {}
       IN af' = [pc |-> IF batch # {} THEN "batch"
                        ELSE IF over THEN "returned" ELSE "wait",
                 tasks |-> tasks \cup new,
                 done |-> af.done \ {offset},
                 batch |-> batch,
                 seen_offsets |-> seen_offsets,
                 files_by_offset |-> files_by_offset,
                 issued |-> Count(af.issued, new),
                 result |-> IF over THEN Aggregate(files_by_offset) ELSE <<>>]
    /\ UNCHANGED <<engineVars, codec, pageMax, sf>>

\* search_files up to its loop
SyncStart ==
    /\ sf.pc = "start"
    /\ af.pc = "returned"
    /\ sf' = [sf EXCEPT !.pc = "loop", !.offsets_to_fetch = <<0>>]
    /\ UNCHANGED <<engineVars, codec, pageMax, af>>

\* one pass of "while offsets_to_fetch", and the return after the last one
SyncStep ==
    /\ sf.pc = "loop"
    /\ LET offset == Head(sf.offsets_to_fetch)
           rest == Tail(sf.offsets_to_fetch)
           skip == offset \in sf.seen_offsets
           seen_offsets == sf.seen_offsets \cup {offset}
           page == parse_page(offset)
           files_by_offset == IF skip THEN sf.files_by_offset
                              ELSE Append(sf.files_by_offset, offset)
           new == IF skip THEN <<>>
                  ELSE SelectSeq([i \in 1..MaxPages |-> offset + Stride * i],
                                 LAMBDA n : n <= page.max_offset /\ n \notin seen_offsets)
           offsets_to_fetch == rest \o new
       IN sf' = [pc |-> IF offsets_to_fetch = <<>> THEN "returned" ELSE "loop",
                 offsets_to_fetch |-> offsets_to_fetch,
                 seen_offsets |-> seen_offsets,
                 files_by_offset |-> files_by_offset,
                 issued |-> IF skip THEN sf.issued ELSE Count(sf.issued, {offset}),
                 result |-> IF offsets_to_fetch = <<>>
                            THEN Aggregate(files_by_offset) ELSE <<>>]
    /\ UNCHANGED <<engineVars, codec, pageMax, af>>

InitFetch ==
    /\ tools = ToolsAtStartup
    /\ ChatInit
    /\ CodecIdle
    /\ pageMax \in [Offsets -> Offsets]
    /\ af = [pc |-> "start", tasks |-> {}, done |-> {}, batch |-> {},
             seen_offsets |-> {}, files_by_offset |-> <<>>, issued |-> NoFetches,
             result |-> <<>>]
    /\ sf = [pc |-> "start", offsets_to_fetch |-> <<>>, seen_offsets |-> {},
             files_by_offset |-> <<>>, issued |-> NoFetches, result |-> <<>>]

NextFetch ==
    \/ AsyncStart
    \/ \E offset \in Offsets : FetchCompletes(offset)
    \/ AsyncWake
    \/ \E offset \in Offsets : AsyncProcess(offset)
    \/ SyncStart
    \/ SyncStep

SpecFetch == InitFetch /\ [][NextFetch]_vars

\* the searches run on whenever they can, and every fetch issued completes
SpecFetchFair ==
    /\ SpecFetch
    /\ WF_vars(AsyncStart)
    /\ WF_vars(\E offset \in Offsets : FetchCompletes(offset))
    /\ WF_vars(AsyncWake)
    /\ WF_vars(\E offset \in Offsets : AsyncProcess(offset))
    /\ WF_vars(SyncStart)
    /\ WF_vars(SyncStep)

----------------------------------------------------------------------------
(* Properties *)

IsPrefix(a, b) == Len(a) <= Len(b) /\ SubSeq(b, 1, Len(a)) = a

\* some run of consecutive tokens of text is sub
Mentions(text, sub) ==
    \E i \in 1..(Len(text) - Len(sub) + 1) : SubSeq(text, i, i + Len(sub) - 1) = sub

\* this step delivers a backend reply to chat
ReplyStep == Len(rounds') = Len(rounds) + 1

\* the reply this step delivers
TheReply == rounds'[Len(rounds')].reply

\* from idle only a new chat call posts a request or calls a tool
OnlyCallsLeaveIdle ==
    (pc = "idle" /\ (nRequests' # nRequests \/ nInvocations' # nInvocations))
        => nCalls' = nCalls + 1

\* C1: the transcript is append-only: every step leaves the transcript it found
\* as a prefix of the transcript it leaves, whatever the step is (a prompt, a
\* reply, a corrective or relay turn, a failure).
C1_AppendOnly == [][IsPrefix(history, history')]_vars

\* a second chat call is under way after a first one that went through a
\* continuation turn and then failed
C1_Witness ==
    /\ outcome.kind = "raised"
    /\ pc = "backend"
    /\ Len(history) >= 5

\* C2: as long as every request got its reply, after N rounds the transcript
\* has exactly 2N entries: entry 2k-1 is the inbound turn of round k, entry 2k
\* the assistant reply of round k.
C2_TwoEntriesPerRound ==
    (pc # "backend" /\ nRequests = Len(rounds)) =>
        /\ Len(history) = 2 * Len(rounds)
        /\ \A n \in 1..Len(rounds) :
              /\ history[2 * n - 1] = rounds[n].inbound
              /\ history[2 * n] = Entry("assistant", rounds[n].reply)

\* three rounds, two of them started by relaying a tool's result or failure
C2_Witness ==
    /\ pc = "idle"
    /\ nRequests = Len(rounds)
    /\ Len(rounds) = 3
    /\ nInvocations = 2
    /\ Len(history) = 6

\* C3: every request posted carries the synthesized system message first and
\* once, then the whole transcript in order, ending with the prompt appended in
\* this step; the synthesized system message is never in the transcript.
C3_RequestCarriesTranscript ==
    [][/\ nRequests' # nRequests =>
            /\ Len(history') = Len(history) + 1 \/ Len(history') = Len(history) + 2
            /\ Len(sent') = Len(history') + 1
            /\ sent'[1] = SystemMessage(protocol, tools)
            /\ \A i \in 1..Len(history') : sent'[i + 1] = history'[i]
            /\ history'[Len(history')].role # "assistant"
       /\ \A i \in 1..Len(history') : history'[i] # SystemMessage(protocol, tools)
      ]_vars

\* a request is in flight that carries a transcript of five entries, one of
\* them a caller's own system-role turn
C3_Witness ==
    /\ pc = "backend"
    /\ Len(history) = 5
    /\ sent = <<SystemMessage(protocol, tools)>> \o history
    /\ \E i \in 1..Len(history) : history[i].role = "system"

\* the thoughts a turn's content carries under the engine's protocol
TurnThoughts(content) ==
    LET r == parse(protocol, content) IN
    IF r.ok /\ IsStr(r.msg.thoughts) THEN r.msg.thoughts.s ELSE <<>>

\* this step ends by posting one more request whose last message is a new
\* transcript entry
PostsFurtherRequest ==
    /\ pc' = "backend"
    /\ nRequests' = nRequests + 1
    /\ Len(history') > Len(history)
    /\ sent'[Len(sent')] = history'[Len(history')]

\* C4: under either protocol, when the tool a valid reply names is registered
\* and its call returns, chat does not end: it appends a turn that names the
\* tool and its result and posts a further request carrying it.
C4_ToolResultRelayed ==
    [][(pc = "tool" /\ nInvocations' = nInvocations + 1 /\ tool_result'.ok) =>
            /\ PostsFurtherRequest
            /\ outcome' = outcome
            /\ Mentions(TurnThoughts(history'[Len(history')].content), msg.tool.s)
            /\ Mentions(TurnThoughts(history'[Len(history')].content),
                        <<W(tool_result'.val)>>)
      ]_vars

\* C5: under either protocol, when the call of a registered tool raises, chat
\* does not raise: it appends a turn that names the tool and the failure and
\* posts a further request carrying it.
C5_ToolFailureAbsorbed ==
    [][(pc = "tool" /\ nInvocations' = nInvocations + 1 /\ ~tool_result'.ok) =>
            /\ outcome' = outcome
            /\ PostsFurtherRequest
            /\ Mentions(TurnThoughts(history'[Len(history')].content), msg.tool.s)
            /\ Mentions(TurnThoughts(history'[Len(history')].content),
                        <<W(tool_result'.val)>>)
      ]_vars

\* C6: under either protocol, when parse fails on a reply, chat does not fail:
\* it appends a corrective turn that quotes the reply and the error and posts a
\* further request carrying it.
C6_ParseFailureRetried ==
    [][(ReplyStep /\ ~parse(protocol, TheReply).ok) =>
            /\ outcome' = outcome
            /\ PostsFurtherRequest
            /\ Mentions(TurnThoughts(history'[Len(history')].content), TheReply)
            /\ Mentions(TurnThoughts(history'[Len(history')].content),
                        <<W(parse(protocol, TheReply).err)>>)
      ]_vars

\* the validity invariant, violated
Invalid(m) ==
    ~ \/ Truthy(m.thoughts) /\ Truthy(m.tool)
      \/ Truthy(m.thoughts) /\ Truthy(m.response)

\* C7: a reply that parses but violates the validity invariant makes chat raise
\* ValueError at once: the step posts no request and calls no tool, and after it
\* only a new chat call does either.
C7_InvalidIsFatal ==
    [][/\ (ReplyStep /\ parse(protocol, TheReply).ok
             /\ Invalid(parse(protocol, TheReply).msg)) =>
            /\ pc' = "idle"
            /\ depth' = 0
            /\ outcome' = Raised("ValueError")
            /\ nRequests' = nRequests
            /\ nInvocations' = nInvocations
       /\ OnlyCallsLeaveIdle
      ]_vars

\* chat has raised ValueError on a reply that came after a continuation turn
C7_Witness ==
    /\ pc = "idle"
    /\ outcome = Raised("ValueError")
    /\ Len(history) >= 4
    /\ history[Len(history)].role = "assistant"
    /\ parse(protocol, history[Len(history)].content).ok
    /\ Invalid(parse(protocol, history[Len(history)].content).msg)

\* the field f as the reply text itself carries it, before any defaulting
RawField(p, text, f) ==
    IF p = "xml" THEN TagField(f, text)
    ELSE LET r == json_loads(text) IN
         IF r.ok /\ IsDict(r.val) THEN DictGet(r.val.d, f) ELSE PyNone

\* this step delivers a valid reply that names a tool the registry lacks
UnknownToolStep ==
    /\ ReplyStep
    /\ parse(protocol, TheReply).ok
    /\ ~Invalid(parse(protocol, TheReply).msg)
    /\ Truthy(parse(protocol, TheReply).msg.tool)
    /\ \A i \in 1..Len(tools) : <<W(tools[i])>> # parse(protocol, TheReply).msg.tool.s

\* the step ends chat by returning a Message that names the requested tool,
\* without a request, a tool call or an exception
ReturnsUnknownTool ==
    /\ pc' = "idle"
    /\ outcome'.kind = "returned"
    /\ outcome'.msg.tool = RawField(protocol, TheReply, "tool")
    /\ outcome'.msg.tool_args = parse(protocol, TheReply).msg.tool_args
    /\ nRequests' = nRequests
    /\ nInvocations' = nInvocations

\* C8 as stated: a valid reply naming an unregistered tool, and carrying no
\* response, ends chat with a returned Message whose tool is the requested name
\* and whose response is absent.
C8_UnknownToolResponseAbsent ==
    [][(UnknownToolStep /\ ~Truthy(RawField(protocol, TheReply, "response"))) =>
            /\ ReturnsUnknownTool
            /\ IsNone(outcome'.msg.response)
      ]_vars

\* C8 amended: a valid reply naming an unregistered tool ends chat without
\* raising and without a further request or tool call; the returned Message
\* has the requested name as tool and the response parse gave it: the reply's
\* own response, or, under the tag-delimited protocol when the reply has none
\* (or an empty one), the reply's thoughts.
C8_UnknownToolReturnsParsed ==
    [][/\ UnknownToolStep =>
            /\ ReturnsUnknownTool
            /\ outcome'.msg.thoughts = RawField(protocol, TheReply, "thoughts")
            /\ outcome'.msg.response =
                 IF protocol = "xml"
                    /\ ~Truthy(RawField(protocol, TheReply, "response"))
                 THEN RawField(protocol, TheReply, "thoughts")
                 ELSE RawField(protocol, TheReply, "response")
       /\ OnlyCallsLeaveIdle
      ]_vars

\* under the tag-delimited protocol chat has returned a Message for the
\* unregistered tool "ghost" whose response is its thoughts
C8_Witness ==
    /\ protocol = "xml"
    /\ pc = "idle"
    /\ outcome.kind = "returned"
    /\ outcome.msg.tool = Txt("ghost")
    /\ outcome.msg.response = outcome.msg.thoughts
    /\ Truthy(outcome.msg.response)

\* C9: under either protocol, a reply that carries thoughts but neither a tool
\* nor a response ends chat normally, and the returned response is the thoughts.
C9_ResponseFallback ==
    [][(/\ ReplyStep
        /\ Truthy(RawField(protocol, TheReply, "thoughts"))
        /\ ~Truthy(RawField(protocol, TheReply, "tool"))
        /\ ~Truthy(RawField(protocol, TheReply, "response"))) =>
            /\ pc' = "idle"
            /\ outcome'.kind = "returned"
            /\ outcome'.msg.response = RawField(protocol, TheReply, "thoughts")
      ]_vars

\* C10: a failure of the backend call makes chat raise at once: the transcript
\* stays as it is, no request is posted and no tool called in the step, and
\* after it only a new chat call does either.
C10_BackendFailureIsFatal ==
    [][/\ (pc = "backend" /\ ~ReplyStep) =>
            /\ pc' = "idle"
            /\ depth' = 0
            /\ outcome' = Raised("BackendError")
            /\ history' = history
            /\ nRequests' = nRequests
            /\ nInvocations' = nInvocations
       /\ OnlyCallsLeaveIdle
      ]_vars

\* the backend failed on the request of a continuation turn, after a tool call
C10_Witness ==
    /\ pc = "idle"
    /\ outcome = Raised("BackendError")
    /\ nInvocations >= 1
    /\ Len(history) >= 3
    /\ history[Len(history)].role = "user"
    /\ nRequests = Len(rounds) + 1

\* a ceiling on continuation turns that the exploration can see exceeded; the
\* engine itself has no such parameter
RetryCeiling == MaxRequests - 2

\* C11: within one chat call the corrective-retry and tool-continuation turns
\* never exceed a configured ceiling: chat posts a continuation request only
\* while the turns made so far in this call are below the ceiling.
C11_RetriesBounded ==
    [][(nCalls' = nCalls /\ nRequests' > nRequests) => depth - 1 < RetryCeiling]_vars

\* requests posted and neither answered nor failed
InFlight == nRequests - Len(rounds) - nFailed

\* C12: the engine is strictly sequential: at most one request is in flight,
\* none while a tool runs, and a request is posted only when the one before it
\* is over, its reply is in the transcript and the tool that reply asked for
\* has finished.
C12_StrictlySequential ==
    [][/\ InFlight' \in {0, 1}
       /\ pc' = "tool" => InFlight' = 0
       /\ nInvocations' # nInvocations => (pc = "tool" /\ InFlight = 0)
       /\ (pc = "tool" /\ pc' # "tool") => nInvocations' = nInvocations + 1
       /\ nRequests' # nRequests =>
            /\ nRequests' = nRequests + 1
            /\ InFlight = 0 \/ ReplyStep
            /\ ReplyStep =>
                 history'[Len(history') - 1] = Entry("assistant", TheReply)
            /\ pc' = "backend"
      ]_vars

\* the third request of a conversation is in flight, posted after a tool ran
\* and after an earlier backend call failed
C12_Witness ==
    /\ pc = "backend"
    /\ InFlight = 1
    /\ nRequests = 3
    /\ nInvocations = 1
    /\ nFailed = 1

\* the tool_args value a reply text carries, before any validation
RawToolArgs(p, text) ==
    IF p = "xml"
    THEN LET mt == TagSearch("tool_args", text) IN
         IF mt.found /\ json_loads(mt.group).ok
         THEN json_loads(mt.group).val ELSE PyNone
    ELSE RawField(p, text, "tool_args")

\* C18: the invocation follows the shape of tool_args: a reply with thoughts
\* that names a registered tool and carries a mapping as tool_args gets the
\* tool invoked with that mapping as keyword arguments.
C18_MappingInvokedByKeyword ==
    [][(/\ ReplyStep
        /\ IsDict(RawToolArgs(protocol, TheReply))
        /\ Truthy(RawField(protocol, TheReply, "thoughts"))
        /\ Truthy(RawField(protocol, TheReply, "tool"))
        /\ get_tool_by_name(tools, RawField(protocol, TheReply, "tool").s).found)
       => (pc' = "tool" /\ msg'.tool_args = RawToolArgs(protocol, TheReply))
      ]_vars

\* a field that is set, whatever it holds
Present(v) == ~IsNone(v)

\* a field that is set to a non-empty string
NonEmpty(v) == IsStr(v) /\ v.s # <<>>

\* parse has run on a reply text and gave a Message
Parsed == codec.op = "parsed" /\ codec.res.ok

\* C13, with "present" read as "set": a parsed Message is valid iff thoughts and
\* tool are set or thoughts and response are set.
C13_ValidIffPresent ==
    Parsed =>
        (is_valid(codec.res.msg) <=>
            \/ Present(codec.res.msg.thoughts) /\ Present(codec.res.msg.tool)
            \/ Present(codec.res.msg.thoughts) /\ Present(codec.res.msg.response))

\* C13, with "present" read as "set and not empty": a parsed Message is valid
\* iff thoughts and tool are non-empty or thoughts and response are non-empty,
\* and a reply text without thoughts parses to an invalid Message.
C13_ValidIffNonEmpty ==
    Parsed =>
        /\ is_valid(codec.res.msg) <=>
             \/ NonEmpty(codec.res.msg.thoughts) /\ NonEmpty(codec.res.msg.tool)
             \/ NonEmpty(codec.res.msg.thoughts) /\ NonEmpty(codec.res.msg.response)
        /\ ~Truthy(RawField(protocol, codec.text, "thoughts"))
             => ~is_valid(codec.res.msg)

\* a parsed reply whose thoughts are set but empty and whose tool is named
C13_Witness ==
    /\ Parsed
    /\ codec.res.msg.thoughts = PyStr(<<>>)
    /\ NonEmpty(codec.res.msg.tool)
    /\ NonEmpty(RawField(protocol, codec.text, "response"))

\* C14: round trip: for a valid Message and either value of the pretty flag,
\* serialize succeeds, its text parses, and serializing the parsed Message
\* gives that text again.
C14_RoundTrip ==
    (codec.op \in {"serialized", "back", "again"} /\ is_valid(codec.m)) =>
        /\ codec.ser.ok
        /\ codec.op \in {"back", "again"} => codec.back.ok
        /\ codec.op = "again" => codec.again = codec.ser

\* C15: the tag parser never fails: whatever the reply text, it gives a
\* Message; a missing thoughts or tool tag gives an absent field, and a
\* tool_args content that is no JSON array gives tool_args = [].
C15_TagParseNeverFails ==
    (codec.op = "parsed" /\ protocol = "xml") =>
        /\ codec.res.ok
        /\ \A f \in {"thoughts", "tool"} :
             ~TagSearch(f, codec.text).found => IsNone(codec.res.msg[f])
        /\ ~IsList(RawToolArgs(protocol, codec.text))
             => codec.res.msg.tool_args = PyList(<<>>)

\* the reply text is one JSON object whose tool_args, if there, is an array
WellFormedObject(text) ==
    /\ json_loads(text).ok
    /\ IsDict(json_loads(text).val)
    /\ "tool_args" \in DOMAIN json_loads(text).val.d
         => IsList(json_loads(text).val.d.tool_args)

\* C16: the JSON parser fails only on a text that is no well-formed JSON
\* object: an object with any subset of the four keys parses, and the keys it
\* lacks are absent fields of the Message.
C16_ObjectAlwaysParses ==
    (codec.op = "parsed" /\ protocol = "json" /\ WellFormedObject(codec.text)) =>
        /\ codec.res.ok
        /\ \A f \in TextFields :
             f \notin DOMAIN json_loads(codec.text).val.d
                => IsNone(codec.res.msg[f])

\* C17: the registry is a map keyed by name: whatever register_tool calls
\* were made, no two descriptors share a name, and a lookup finds a name iff
\* it was registered.
C17_RegistryIsMap ==
    [][/\ \A i, j \in 1..Len(tools') : tools'[i] = tools'[j] => i = j
       /\ (codec'.op = "lookup" /\ tools' = tools) =>
            (codec'.res.found <=> \E i \in 1..Len(tools) : tools[i] = codec'.name)
      ]_vars

RECURSIVE Reported(_)
\* the offsets the server's pages lead to, from a set of offsets on
Reported(S) ==
    LET T == S \cup UNION {OffsetRange(o, pageMax[o]) : o \in S}
    IN IF T = S THEN S ELSE Reported(T)

\* the offsets a search has issued a fetch for
Fetched(issued) == {o \in Offsets : issued[o] > 0}

\* C19: in both implementations no offset is fetched twice, rediscovered or
\* not, and a finished search has fetched exactly the offsets the pages
\* report: all of 0, 32, ..., M when the first page reports maximum offset M.
C19_EachOffsetOnce ==
    /\ \A o \in Offsets : af.issued[o] <= 1 /\ sf.issued[o] <= 1
    /\ af.pc = "returned" =>
         /\ Fetched(af.issued) = Reported({0})
         /\ \A o \in Offsets : o <= pageMax[0] => af.issued[o] = 1
    /\ sf.pc = "returned" =>
         /\ Fetched(sf.issued) = Reported({0})
         /\ \A o \in Offsets : o <= pageMax[0] => sf.issued[o] = 1

\* both searches are over; every page named the last offset, so that each
\* offset was rediscovered by the pages before it, and the concurrent search
\* got its pages out of order
C19_Witness ==
    /\ af.pc = "returned"
    /\ sf.pc = "returned"
    /\ \A o \in Offsets : pageMax[o] = Stride * MaxPages
    /\ Len(af.files_by_offset) = MaxPages + 1
    /\ af.files_by_offset[2] > af.files_by_offset[3]

RECURSIVE Ascending(_, _)
\* the pages of a set of offsets, one after the other from the i-th offset on
Ascending(i, S) ==
    IF i > MaxPages THEN <<>>
    ELSE (IF Stride * i \in S THEN PageFiles(Stride * i) ELSE <<>>)
             \o Ascending(i + 1, S)

\* the offsets whose page was processed
Processed(files_by_offset) == {files_by_offset[i] : i \in 1..Len(files_by_offset)}

\* C20: the search returns only when no fetch is outstanding and every fetch
\* it issued was processed, and what it returns is the pages' file lists in
\* ascending order of offset, whatever order the pages came in.
C20_AggregatesAfterAll ==
    /\ af.pc = "returned" =>
         /\ af.tasks = {}
         /\ af.done = {}
         /\ Fetched(af.issued) = Processed(af.files_by_offset)
         /\ af.result = Ascending(0, Fetched(af.issued))
    /\ sf.pc = "returned" =>
         /\ sf.offsets_to_fetch = <<>>
         /\ Fetched(sf.issued) = Processed(sf.files_by_offset)
         /\ sf.result = Ascending(0, Fetched(sf.issued))

\* the concurrent search has returned after its last two pages came in
\* before the second
C20_Witness ==
    /\ af.pc = "returned"
    /\ af.files_by_offset = <<0, 64, 96, 32>>
    /\ af.result = <<1, 2, 33, 34, 65, 66, 97, 98>>

\* C21: against one server the concurrent and the sequential search return
\* the same list in the same order, whatever order the concurrent fetches
\* completed in.
C21_AsyncEqualsSync ==
    (af.pc = "returned" /\ sf.pc = "returned") => af.result = sf.result

\* both searches are over on a server of four pages, the concurrent one
\* having got its pages in the order 0, 96, 64, 32
C21_Witness ==
    /\ af.pc = "returned"
    /\ sf.pc = "returned"
    /\ af.files_by_offset = <<0, 96, 64, 32>>
    /\ sf.files_by_offset = <<0, 32, 64, 96>>
    /\ Len(sf.result) = 8

\* C22: the deduplication state of the concurrent search, seen_offsets and
\* tasks, has one writer: a fetch task that completes leaves both as they
\* were, and they change only in steps of search_files_async itself, which
\* run while no fetch task does.
C22_SingleWriter ==
    [][/\ af'.done \ af.done # {} =>
            /\ af'.seen_offsets = af.seen_offsets
            /\ af'.tasks = af.tasks
            /\ af'.files_by_offset = af.files_by_offset
       /\ (af'.seen_offsets # af.seen_offsets \/ af'.tasks # af.tasks) =>
            af.pc \in {"start", "batch"}
      ]_vars

\* three fetch tasks have completed side by side while the search waits,
\* and the deduplication state is as the search left it
C22_Witness ==
    /\ af.pc = "wait"
    /\ af.done = {32, 64, 96}
    /\ af.tasks = {32, 64, 96}
    /\ af.seen_offsets = {0}

\* the choices the backend sent in this step, and the content of the last
TheChoices == rounds'[Len(rounds')].choices
TheLastContent == TheChoices[Len(TheChoices)]

\* C23: of a reply with several choices the engine consumes the last one
\* only: its content is the assistant entry appended to the transcript, and
\* it is the text parsed, so that the tool started or the Message returned
\* is the one that content parses to.
C23_LastChoiceConsumed ==
    [][ReplyStep =>
        /\ history'[Len(history) + 1] = Entry("assistant", TheLastContent)
        /\ pc' = "tool" =>
             /\ parse(protocol, TheLastContent).ok
             /\ msg' = parse(protocol, TheLastContent).msg
        /\ (outcome' # outcome /\ outcome'.kind = "returned") =>
             /\ parse(protocol, TheLastContent).ok
             /\ outcome'.msg = parse(protocol, TheLastContent).msg
        /\ (parse(protocol, TheLastContent).ok
              /\ ~is_valid(parse(protocol, TheLastContent).msg)) =>
             outcome' = Raised("ValueError")
      ]_vars

\* a reply whose first choice asks for a tool and whose last choice is a
\* final answer has ended the call with that answer, no tool having run
C23_Witness ==
    /\ protocol = "json"
    /\ Len(rounds) = 1
    /\ rounds[1].choices = <<ReplyTexts[10], ReplyTexts[8]>>
    /\ outcome.kind = "returned"
    /\ outcome.msg.response = Txt("hello")
    /\ nInvocations = 0
    /\ Len(history) = 2

\* C24: a tool is started only by a reply that parsed and passed the validity
\* check, it is invoked once, and after the invocation no tool runs again
\* before the next backend request is answered; a reply that names a tool but
\* has no thoughts never starts it.
C24_ToolOnlyAfterValidReply ==
    [][/\ (pc' = "tool" /\ pc # "tool") =>
            /\ ReplyStep
            /\ parse(protocol, TheReply).ok
            /\ is_valid(parse(protocol, TheReply).msg)
            /\ msg' = parse(protocol, TheReply).msg
            /\ get_tool_by_name(tools, msg'.tool.s).found
       /\ nInvocations' # nInvocations =>
            /\ nInvocations' = nInvocations + 1
            /\ pc = "tool"
            /\ pc' # "tool"
            /\ msg = parse(protocol, rounds[Len(rounds)].reply).msg
            /\ nInvocations' <= Len(rounds)
       /\ (ReplyStep /\ ~Truthy(RawField(protocol, TheReply, "thoughts"))) =>
            (pc' # "tool" /\ nInvocations' = nInvocations)
      ]_vars

\* a reply that names a registered tool and has no thoughts has ended the
\* call with an error, no tool having run for it, after an earlier reply of
\* the conversation had a tool run
C24_Witness ==
    /\ Len(rounds) >= 2
    /\ rounds[Len(rounds)].reply \in {ReplyTexts[6], ReplyTexts[12]}
    /\ outcome = Raised("ValueError")
    /\ pc = "idle"
    /\ nInvocations = 1

\* the entries of a transcript that carry role assistant
AssistantEntries(h) == {i \in 1..Len(h) : h[i].role = "assistant"}

\* between chat calls and without a backend failure so far, the transcript
\* is made of pairs: an inbound entry, then the assistant entry that answers
\* the request posted with it
PairedTranscript ==
    /\ Len(history) = 2 * Len(rounds)
    /\ \A n \in 1..Len(rounds) :
          /\ history[2 * n].role = "assistant"
          /\ history[2 * n].content = rounds[n].reply
          /\ history[2 * n - 1] = rounds[n].inbound

\* C25: as long as no backend call failed, between chat calls the transcript
\* has even length and alternates inbound and assistant entries, each
\* assistant entry answering the request posted with the entry before it, and
\* the entries with role assistant are as many as the requests posted.
C25_AlternatesAssistantCount ==
    (pc = "idle" /\ nFailed = 0) =>
        /\ PairedTranscript
        /\ Cardinality(AssistantEntries(history)) = nRequests

\* C25, counting the replies: as above, but it is the entries at odd 0-based
\* positions, the replies, that are as many as the requests posted; an
\* inbound entry carries whatever role the caller passed.
C25_AlternatesReplyCount ==
    (pc = "idle" /\ nFailed = 0) =>
        /\ PairedTranscript
        /\ Len(history) = 2 * nRequests
        /\ \A i \in 1..Len(history) :
              (i % 2 = 0) => history[i].role = "assistant"

\* two calls are over, the first made with role assistant; three requests
\* were posted, one of them a continuation turn
C25_Witness ==
    /\ pc = "idle"
    /\ nFailed = 0
    /\ nCalls = 2
    /\ nRequests = 3
    /\ Len(history) = 6
    /\ history[1].role = "assistant"

\* C26: a failed chat call leaves the transcript as it stood: when the
\* backend call fails the prompt posted stays the last entry, when the reply
\* is invalid the prompt and the reply both stay, and the next chat call posts
\* all of it, followed by its own prompt.
C26_FailureKeepsTranscript ==
    [][/\ (pc = "backend" /\ ~ReplyStep) =>
            /\ outcome' = Raised("BackendError")
            /\ history' = history
            /\ history'[Len(history')] = sent[Len(sent)]
       /\ (ReplyStep /\ parse(protocol, TheReply).ok
             /\ ~is_valid(parse(protocol, TheReply).msg)) =>
            /\ outcome' = Raised("ValueError")
            /\ history' = Append(history, Entry("assistant", TheReply))
            /\ history'[Len(history') - 1] = sent[Len(sent)]
       /\ (pc = "idle" /\ pc' = "backend") =>
            /\ Len(history') = Len(history) + 1
            /\ sent' = <<SystemMessage(protocol, tools)>> \o history
                          \o <<history'[Len(history')]>>
      ]_vars

\* the first call failed at the backend, and the second call's request
\* carries the first call's prompt before its own
C26_Witness ==
    /\ pc = "backend"
    /\ nCalls = 2
    /\ nFailed = 1
    /\ outcome = Raised("BackendError")
    /\ Len(rounds) = 0
    /\ Len(sent) = 3
    /\ sent[2] = history[1]
    /\ sent[3] = history[2]

\* C27: with every page naming a maximum offset of the server and every
\* fetch completing, both searches return; each pass of either loop retires
\* one scheduled offset, and an offset already fetched is never scheduled
\* again.
C27_BothTerminate ==
    /\ <>(af.pc = "returned" /\ sf.pc = "returned")
    /\ [][/\ af.pc = "batch" =>
               \E o \in af.tasks :
                  /\ af'.tasks \cap {o} = {}
                  /\ af'.batch = af.batch \ {o}
                  /\ o \in af'.seen_offsets
          /\ \A o \in af'.tasks \ af.tasks : o \notin af.seen_offsets
          /\ sf.pc = "loop" =>
               /\ Head(sf.offsets_to_fetch) \in sf'.seen_offsets
               /\ Len(sf'.offsets_to_fetch) >= Len(sf.offsets_to_fetch) - 1
               /\ \A i \in Len(sf.offsets_to_fetch)..Len(sf'.offsets_to_fetch) :
                     sf'.offsets_to_fetch[i] \notin sf'.seen_offsets
         ]_vars

\* both searches have returned with the files of every page of the server,
\* the second page having named the last offset again
C27_Witness ==
    /\ af.pc = "returned"
    /\ sf.pc = "returned"
    /\ Len(af.result) = 2 * (MaxPages + 1)
    /\ Len(sf.result) = 2 * (MaxPages + 1)
    /\ pageMax[Stride] = Stride * MaxPages

====
